---------------------------- MODULE Spec2Model ----------------------------
(***************************************************************************)
(* VAR-Capital: portfolio metrics batch (FinalBloombergCode.py) and the    *)
(* merger-arbitrage batch (EventTradesAnalysis.py).                        *)
(*                                                                         *)
(* Three specifications share this module:                                 *)
(*   Spec      - the portfolio batch, FinalBloombergCode.py lines 97-167   *)
(*   SpecMA    - merger_arbitrage_from_excel, EventTradesAnalysis.py       *)
(*   SpecAlign - calculate_metrics applied to arbitrary pairs of series    *)
(*                                                                         *)
(* Floating point numbers are modelled in fixed point: the integer n       *)
(* stands for n / Scale.  A value is a record [kind, v]: kind "fin" with   *)
(* v the fixed-point integer, or one of the IEEE specials a float64        *)
(* division can produce ("nan", "inf", "-inf"), or Python's None.          *)
(***************************************************************************)
EXTENDS Integers, Sequences, FiniteSets, TLC

VARIABLES
    \* ---- FinalBloombergCode.py, module level
    df,                     \* the rows read from data.xlsx (line 9)
    pc,                     \* position of the script
    row,                    \* index of the row the for loop is at (line 110)
    sell_date,              \* loop variable, defaulted at line 117
    stock_data,             \* line 119
    market_data,            \* line 126
    portfolio_alpha,        \* line 98
    portfolio_beta,         \* line 99
    portfolio_sharpe_ratio, \* line 100
    num_stocks_processed,   \* line 101
    results,                \* line 103
    error_log,              \* lines written to error_tickers.txt
    status,                 \* history: how each row taken so far ended
    \* ---- one call of fetch_bloomberg_data / get_bloomberg_data
    fpc,                    \* position inside the fetch function
    session,                \* the local name `session`
    live,                   \* sessions started and not yet stopped
    pending,                \* data points the provider has still to deliver
    data,                   \* the local list `data` / dict entry being built
    received,               \* history: the data points delivered to this call
    calls,                  \* history: the fetches begun, as <<row, ticker>>
    exc,                    \* the uncaught exception that ended the script
    \* ---- calculate_metrics
    returns_data,           \* line 76
    metrics,                \* the triple calculate_metrics returned
    \* ---- EventTradesAnalysis.py
    ma_df,                  \* the rows read from event_data.xlsx
    ma_pc,
    ma_row,
    ma_stock,               \* line 75
    ma_market,              \* line 76
    ma_metrics,             \* line 82: what calculate_alpha_beta_sharpe did
    ma_results              \* line 123

vars == <<df, pc, row, sell_date, stock_data, market_data, portfolio_alpha,
          portfolio_beta, portfolio_sharpe_ratio, num_stocks_processed,
          results, error_log, status, fpc, session, live, pending, data,
          received, calls, exc, returns_data, metrics, ma_df, ma_pc, ma_row, ma_stock, ma_market,
          ma_metrics, ma_results>>

batchVars == <<df, pc, row, sell_date, portfolio_alpha, portfolio_beta,
               portfolio_sharpe_ratio, num_stocks_processed, results,
               error_log, status>>

fetchVars == <<fpc, session, live, pending, data, received, calls>>

NoException == "none"

maVars == <<ma_df, ma_pc, ma_row, ma_stock, ma_market, ma_metrics, ma_results>>

-----------------------------------------------------------------------------
(* Bounds of the model *)

MaxPositions == 2       \* rows of data.xlsx
MaxRows == 2            \* rows of event_data.xlsx
MaxDate == 4            \* trading days a price series can span (SpecAlign)

-----------------------------------------------------------------------------
(* Numbers *)

Scale == 100 * 100

\* a finite float, the three IEEE specials, and Python's None
Fin(n) == [kind |-> "fin", v |-> n]
NaN == [kind |-> "nan", v |-> 0]
PosInf == [kind |-> "inf", v |-> 0]
NegInf == [kind |-> "-inf", v |-> 0]
None == [kind |-> "None", v |-> 0]

IsFinite(x) == x.kind = "fin"
IsSpecial(x) == x.kind \in {"nan", "inf", "-inf"}

\* float64 addition (lines 138-140)
FAdd(a, b) ==
    IF a = NaN \/ b = NaN THEN NaN
    ELSE IF IsSpecial(a) /\ IsSpecial(b) THEN (IF a = b THEN a ELSE NaN)
    ELSE IF IsSpecial(a) THEN a
    ELSE IF IsSpecial(b) THEN b
    ELSE Fin(a.v + b.v)

\* floor(a * Scale / c) for c > 0, in two steps of 100 to stay within 32 bits
MulDivScale(a, c) ==
    LET q == (a * 100) \div c
        r == (a * 100) % c
    IN  q * 100 + (r * 100) \div c

\* numpy float64 division a / b of two finite numbers given as integers:
\* it never raises, a zero divisor gives nan or a signed infinity
FDiv(a, b) ==
    IF b = 0 THEN (IF a = 0 THEN NaN ELSE IF a > 0 THEN PosInf ELSE NegInf)
    ELSE IF b > 0 THEN Fin(MulDivScale(a, b))
    ELSE Fin(MulDivScale(-a, -b))

\* the in-place division applied twice
FDivIntTwice(a, n) == IF IsSpecial(a) THEN a ELSE Fin((a.v \div n) \div n)

\* a float divided in place by a positive int (lines 155-157)
FDivInt(a, n) == IF IsSpecial(a) THEN a ELSE Fin(a.v \div n)

RECURSIVE SqrtSearch(_, _, _)
SqrtSearch(n, lo, hi) ==
    IF lo >= hi THEN lo
    ELSE LET mid == (lo + hi + 1) \div 2
         IN  IF mid * mid <= n THEN SqrtSearch(n, mid, hi)
             ELSE SqrtSearch(n, lo, mid - 1)

\* floor of the square root of n >= 0
ISqrt(n) == SqrtSearch(n, 0, IF n < 46340 THEN n ELSE 46340)

RECURSIVE SumSeq(_)
SumSeq(s) == IF s = <<>> THEN 0 ELSE Head(s) + SumSeq(Tail(s))

-----------------------------------------------------------------------------
(* Price series: a DataFrame indexed by Date with one column "Adj Close",  *)
(* as a sequence of [date, price] in the order of the index.               *)

Prices == {100, 110}
Dates == 1 .. MaxDate

RECURSIVE SortedSeq(_)
SortedSeq(S) ==
    IF S = {} THEN <<>>
    ELSE LET m == CHOOSE x \in S : \A y \in S : x <= y
         IN  <<m>> \o SortedSeq(S \ {m})

SeriesOn(D, pf) ==
    LET ds == SortedSeq(D)
    IN  [k \in 1 .. Len(ds) |-> [date |-> ds[k], price |-> pf[ds[k]]]]

\* every series with strictly increasing dates in Dates and prices in Prices
AllSeries == UNION {{SeriesOn(D, pf) : pf \in [D -> Prices]} : D \in SUBSET Dates}

DateSet(s) == {s[k].date : k \in 1 .. Len(s)}

\* a DataFrame, or None
NoFrame == [isNone |-> TRUE, rows |-> <<>>]
Frame(s) == [isNone |-> FALSE, rows |-> s]

-----------------------------------------------------------------------------
(* calculate_metrics, FinalBloombergCode.py lines 69-95 *)

RiskFreePct == 3        \* 0.03, line 89
TradingDays == 252      \* line 89 and line 90

\* pct_change without the dropna: the first row is kept, with a zero return
pct_change_keeps_first(s) ==
    [k \in 1 .. Len(s) |->
        [date |-> s[k].date,
         ret  |-> IF k = 1 THEN 0
                  ELSE (s[k].price * Scale) \div s[k - 1].price - Scale]]

\* Series.pct_change().dropna(): price[i] / price[i-1] - 1 from the second
\* row on; the first row is NaN and dropped
pct_change(s) ==
    [k \in 1 .. Len(s) - 1 |->
        [date |-> s[k + 1].date,
         ret  |-> (s[k + 1].price * Scale) \div s[k].price - Scale]]

RetAt(r, d) == r[CHOOSE k \in 1 .. Len(r) : r[k].date = d].ret

\* pd.concat([a, b], axis = 1).fillna(0): the outer join on the date index
\* with every missing value replaced by a zero return
ConcatFillna(a, b) ==
    LET da  == {a[k].date : k \in 1 .. Len(a)}
        db  == {b[k].date : k \in 1 .. Len(b)}
        all == SortedSeq(da \cup db)
    IN  [k \in 1 .. Len(all) |->
            [date   |-> all[k],
             stock  |-> IF all[k] \in da THEN RetAt(a, all[k]) ELSE 0,
             market |-> IF all[k] \in db THEN RetAt(b, all[k]) ELSE 0]]

\* pd.concat([a, b], axis = 1).dropna(): the outer join on the date index,
\* less every row that lacks one of the two columns
ConcatDropna(a, b) ==
    LET common == SortedSeq({a[k].date : k \in 1 .. Len(a)}
                            \cap {b[k].date : k \in 1 .. Len(b)})
    IN  [k \in 1 .. Len(common) |->
            [date   |-> common[k],
             stock  |-> RetAt(a, common[k]),
             market |-> RetAt(b, common[k])]]

\* scipy.stats.linregress(x, y): raises ValueError when all x are identical
\* (and there are at least two); with one observation the covariance is 0
\* and slope = 0.0 / 0.0 = nan
linregress(x, y) ==
    LET n   == Len(x)
        sx  == SumSeq(x)
        sy  == SumSeq(y)
        sxx == n * SumSeq([k \in 1 .. n |-> x[k] * x[k]]) - sx * sx
        sxy == n * SumSeq([k \in 1 .. n |-> x[k] * y[k]]) - sx * sy
        slope == IF sxx = 0 THEN 0 ELSE MulDivScale(sxy, sxx)
    IN  IF n > 1 /\ \A k \in 1 .. n : x[k] = x[1]
        THEN [raised |-> TRUE, slope |-> NaN, intercept |-> NaN]
        ELSE IF sxx = 0
        THEN [raised |-> FALSE, slope |-> NaN, intercept |-> NaN]
        ELSE [raised |-> FALSE, slope |-> Fin(slope),
              intercept |-> Fin((sy - (slope * sx) \div Scale) \div n)]

\* np.mean(e) / np.std(e) * np.sqrt(252), line 90
SharpeOf(e) ==
    LET n    == Len(e)
        se   == SumSeq(e)
        mean == se \div n
        std  == ISqrt(n * SumSeq([k \in 1 .. n |-> e[k] * e[k]]) - se * se) \div n
        q    == FDiv(mean, std)
    IN  IF IsSpecial(q) THEN q
        ELSE Fin((q.v * ISqrt(TradingDays * 1000 * 1000)) \div 1000)

NoMetrics == [alpha |-> None, beta |-> None, sharpe_ratio |-> None]

\* lines 72-76
AlignedReturns(stock, market) ==
    ConcatDropna(pct_change(stock.rows), pct_change(market.rows))

\* lines 77-95, on the frame of line 76
MetricsOf(rd) ==
    LET stock_returns  == [k \in 1 .. Len(rd) |-> rd[k].stock]
        market_returns == [k \in 1 .. Len(rd) |-> rd[k].market]
        reg    == linregress(market_returns, stock_returns)
        excess == [k \in 1 .. Len(rd) |->
                      stock_returns[k] - (RiskFreePct * Scale) \div (100 * TradingDays)]
    IN  IF rd = <<>> THEN NoMetrics
        ELSE IF reg.raised THEN NoMetrics
        ELSE [alpha |-> reg.intercept, beta |-> reg.slope,
              sharpe_ratio |-> SharpeOf(excess)]

calculate_metrics(stock, market) == MetricsOf(AlignedReturns(stock, market))

-----------------------------------------------------------------------------
(* SpecAlign: calculate_metrics on every pair of series *)

Idle ==
    /\ df = <<>> /\ pc = "idle" /\ row = 0 /\ sell_date = "NaT"
    /\ portfolio_alpha = Fin(0) /\ portfolio_beta = Fin(0)
    /\ portfolio_sharpe_ratio = Fin(0) /\ num_stocks_processed = 0
    /\ results = <<>> /\ error_log = <<>> /\ status = <<>>

IdleFetch ==
    /\ fpc = "idle" /\ session = "unbound" /\ live = 0 /\ pending = <<>> /\ data = <<>>
    /\ received = <<>>
    /\ calls = <<>> /\ exc = NoException

IdleMA ==
    /\ ma_df = <<>> /\ ma_pc = "idle" /\ ma_row = 0
    /\ ma_stock = NoFrame /\ ma_market = NoFrame /\ ma_results = <<>>
    /\ ma_metrics = [called |-> FALSE, raised |-> FALSE, value |-> NoMetrics]

InitAlign ==
    /\ Idle /\ IdleFetch /\ IdleMA
    /\ stock_data \in {Frame(s) : s \in AllSeries}
    /\ market_data \in {Frame(s) : s \in AllSeries}
    /\ returns_data = <<>>
    /\ metrics = [called |-> FALSE, value |-> NoMetrics]

CalculateMetrics ==
    /\ ~metrics.called
    /\ returns_data' = AlignedReturns(stock_data, market_data)
    /\ metrics' = [called |-> TRUE,
                   value |-> calculate_metrics(stock_data, market_data)]
    /\ UNCHANGED <<batchVars, maVars, fetchVars, exc, stock_data, market_data>>

-----------------------------------------------------------------------------
(* FinalBloombergCode.py: the input sheet, lines 7-14 *)

TickerPool == {"AAA LN Equity", "BBB LN Equity"}
PurchaseCells == {"2024-01-02", "", "n/a"}
SaleCells == {"2024-03-01", ""}

NaT == [nat |-> TRUE, day |-> 0]
Timestamp(d) == [nat |-> FALSE, day |-> d]
isna(ts) == ts.nat

\* to_datetime without errors = 'coerce', text taken for a date
to_datetime_lenient(cell) ==
    CASE cell = "2024-01-02" -> Timestamp(2)
      [] cell = "2024-03-01" -> Timestamp(61)
      [] cell = "" -> NaT
      [] OTHER -> Timestamp(1)

\* pd.to_datetime(cell, errors = 'coerce'): a blank or unparseable cell is NaT
to_datetime(cell) ==
    CASE cell = "2024-01-02" -> Timestamp(2)
      [] cell = "2024-03-01" -> Timestamp(61)
      [] OTHER -> NaT

\* pd.Timestamp(date.today()), line 117
Today == Timestamp(306)

SheetRows == [Ticker : TickerPool, PurchaseDate : PurchaseCells, SaleDate : SaleCells]

tickers == [k \in 1 .. Len(df) |-> df[k].Ticker]
purchase_dates == [k \in 1 .. Len(df) |-> to_datetime(df[k].PurchaseDate)]
sell_dates == [k \in 1 .. Len(df) |-> to_datetime(df[k].SaleDate)]

market_ticker == "UKX Index"

-----------------------------------------------------------------------------
(* The price-data provider: the series it may hold for a request *)

Points(ds, ps) == [k \in 1 .. Len(ds) |-> [date |-> ds[k], price |-> ps[k]]]

ProviderSeries ==
    { <<>>,                                         \* no data for the range
      Points(<<1, 2, 3>>, <<100, 100, 100>>),       \* a flat price
      Points(<<1, 2, 3>>, <<100, 110, 100>>),       \* a moving price
      Points(<<4, 5>>, <<100, 110>>) }              \* two later trading days

-----------------------------------------------------------------------------
(* fetch_bloomberg_data, FinalBloombergCode.py lines 16-67 *)

InFetch == pc \in {"fetch_stock", "fetch_market"}

\* the call at line 119 or line 126: fresh locals
CallFetch(ticker) ==
    /\ fpc' = "create"
    /\ session' = "unbound"
    /\ data' = <<>>
    /\ pending' = <<>>
    /\ received' = <<>>
    /\ calls' = Append(calls, <<row, ticker>>)
    /\ UNCHANGED <<live, exc>>

\* session.stop(), line 67
StopSession ==
    /\ session' = "stopped"
    /\ live' = IF session = "started" THEN live - 1 ELSE live

\* the function returns v to line 119 or line 126
ReturnFetch(v) ==
    /\ fpc' = "idle"
    /\ IF pc = "fetch_stock"
       THEN stock_data' = v /\ pc' = "got_stock" /\ UNCHANGED market_data
       ELSE market_data' = v /\ pc' = "got_market" /\ UNCHANGED stock_data

\* lines 63-67: the except clause prints and returns None, then the finally
\* clause calls session.stop(); when `session` was never bound that call
\* raises UnboundLocalError, which replaces the return and leaves the function
ExceptFinally ==
    IF session = "unbound"
    THEN /\ pc' = "aborted"
         /\ exc' = "UnboundLocalError"
         /\ fpc' = "idle"
         /\ UNCHANGED <<session, live, stock_data, market_data>>
    ELSE /\ StopSession
         /\ ReturnFetch(NoFrame)
         /\ UNCHANGED exc

\* lines 17-26: the date check, then the session is constructed
FetchCreate ==
    /\ InFetch /\ fpc = "create"
    /\ IF isna(purchase_dates[row]) \/ isna(sell_date)
       THEN ExceptFinally
       ELSE \E constructed \in BOOLEAN :
              IF constructed
              THEN /\ session' = "created"
                   /\ fpc' = "start"
                   /\ UNCHANGED <<pc, exc, live, stock_data, market_data>>
              ELSE ExceptFinally
    /\ UNCHANGED <<df, row, sell_date, portfolio_alpha, portfolio_beta,
                   portfolio_sharpe_ratio, num_stocks_processed, results,
                   error_log, status, pending, data, received,
                   calls, returns_data,
                   metrics, maVars>>

\* lines 27-28
FetchStart ==
    /\ InFetch /\ fpc = "start"
    /\ \E started \in BOOLEAN :
         IF started
         THEN /\ session' = "started"
              /\ live' = live + 1
              /\ fpc' = "open"
              /\ UNCHANGED <<pc, exc, stock_data, market_data>>
         ELSE ExceptFinally
    /\ UNCHANGED <<df, row, sell_date, portfolio_alpha, portfolio_beta,
                   portfolio_sharpe_ratio, num_stocks_processed, results,
                   error_log, status, pending, data, received,
                   calls, returns_data,
                   metrics, maVars>>

\* lines 29-43: the service is opened and the request sent; the provider
\* now holds the series it will deliver
FetchOpen ==
    /\ InFetch /\ fpc = "open"
    /\ \E opened \in BOOLEAN :
         IF opened
         THEN /\ pending' \in ProviderSeries
              /\ data' = <<>>
              /\ fpc' = "poll"
              /\ UNCHANGED <<pc, exc, session, live, stock_data, market_data>>
         ELSE /\ ExceptFinally
              /\ UNCHANGED <<pending, data>>
    /\ UNCHANGED received
    /\ UNCHANGED <<df, row, sell_date, portfolio_alpha, portfolio_beta,
                   portfolio_sharpe_ratio, num_stocks_processed, results,
                   error_log, status, calls, returns_data, metrics, maVars>>

\* lines 44-56, an event that is not the RESPONSE: its messages carry the
\* next k data points (none for a status or timeout event)
FetchPartial ==
    /\ InFetch /\ fpc = "poll"
    /\ \E k \in 0 .. Len(pending) :
         /\ data' = data \o SubSeq(pending, 1, k)
         /\ received' = received \o SubSeq(pending, 1, k)
         /\ pending' = SubSeq(pending, k + 1, Len(pending))
    /\ UNCHANGED <<batchVars, maVars, fpc, session, live, calls, exc,
                   stock_data, market_data, returns_data, metrics>>

\* lines 44-61 and 67, the RESPONSE event: the rest of the data, the frame
\* is built and returned, the finally clause stops the session
FetchResponse ==
    /\ InFetch /\ fpc = "poll"
    /\ data' = data \o pending
    /\ received' = received \o pending
    /\ pending' = <<>>
    /\ StopSession
    /\ ReturnFetch(Frame(data'))
    /\ UNCHANGED <<df, exc, row, sell_date, portfolio_alpha, portfolio_beta,
                   portfolio_sharpe_ratio, num_stocks_processed, results,
                   error_log, status, calls, returns_data, metrics, maVars>>

\* lines 44-56 raise (connection lost, malformed message)
FetchError ==
    /\ InFetch /\ fpc = "poll"
    /\ ExceptFinally
    /\ UNCHANGED <<df, row, sell_date, portfolio_alpha, portfolio_beta,
                   portfolio_sharpe_ratio, num_stocks_processed, results,
                   error_log, status, pending, data, received,
                   calls, returns_data,
                   metrics, maVars>>

-----------------------------------------------------------------------------
(* FinalBloombergCode.py: the portfolio batch, lines 97-167 *)

ErrorLine(ticker, reason) == [ticker |-> ticker, reason |-> reason]

\* `continue` after a line was written to the error log
Fail(reason) ==
    /\ error_log' = Append(error_log, ErrorLine(tickers[row], reason))
    /\ status' = Append(status, "Failed")
    /\ row' = row + 1
    /\ pc' = "loop"
    /\ UNCHANGED <<portfolio_alpha, portfolio_beta, portfolio_sharpe_ratio,
                   num_stocks_processed, results>>

\* lines 110-119: the next row is taken
NextPosition ==
    /\ pc = "loop" /\ row <= Len(df)
    /\ IF isna(purchase_dates[row])
       THEN /\ Fail("Invalid purchase date format.")
            /\ UNCHANGED <<sell_date, fetchVars, exc>>
       ELSE /\ sell_date' = IF isna(sell_dates[row]) THEN Today ELSE sell_dates[row]
            /\ pc' = "fetch_stock"
            /\ CallFetch(tickers[row])
            /\ UNCHANGED <<row, portfolio_alpha, portfolio_beta,
                           portfolio_sharpe_ratio, num_stocks_processed,
                           results, error_log, status>>
    /\ UNCHANGED <<df, stock_data, market_data, returns_data, metrics, maVars>>

\* `x is None`, without the test of x.empty
IsNoneOnly(f) == f.isNone

\* `x is None or x.empty`, lines 120 and 127
IsNoneOrEmpty(f) == f.isNone \/ f.rows = <<>>

\* lines 120-126
AfterStock ==
    /\ pc = "got_stock"
    /\ IF IsNoneOrEmpty(stock_data)
       THEN /\ Fail("Error fetching stock data.")
            /\ UNCHANGED <<fetchVars, exc>>
       ELSE /\ pc' = "fetch_market"
            /\ CallFetch(market_ticker)
            /\ UNCHANGED <<row, portfolio_alpha, portfolio_beta,
                           portfolio_sharpe_ratio, num_stocks_processed,
                           results, error_log, status>>
    /\ UNCHANGED <<df, sell_date, stock_data, market_data, returns_data,
                   metrics, maVars>>

\* results.insert(0, ...) in place of append
PrependResult(rs, r) == <<r>> \o rs

\* line 144
AppendResult(rs, r) == Append(rs, r)

\* lines 127-151
AfterMarket ==
    /\ pc = "got_market"
    /\ IF IsNoneOrEmpty(market_data)
       THEN /\ Fail("Error fetching market data.")
            /\ UNCHANGED <<returns_data, metrics>>
       ELSE LET m == calculate_metrics(stock_data, market_data)
            IN  /\ returns_data' = AlignedReturns(stock_data, market_data)
                /\ metrics' = [called |-> TRUE, value |-> m]
                /\ IF m.alpha = None \/ m.beta = None \/ m.sharpe_ratio = None
                   THEN Fail("Error calculating metrics.")
                   ELSE /\ portfolio_alpha' = FAdd(portfolio_alpha, m.alpha)
                        /\ portfolio_beta' = FAdd(portfolio_beta, m.beta)
                        /\ portfolio_sharpe_ratio' =
                               FAdd(portfolio_sharpe_ratio, m.sharpe_ratio)
                        /\ num_stocks_processed' = num_stocks_processed + 1
                        /\ results' = AppendResult(results,
                               [ticker |-> tickers[row], alpha |-> m.alpha,
                                beta |-> m.beta, sharpe_ratio |-> m.sharpe_ratio])
                        /\ status' = Append(status, "Success")
                        /\ row' = row + 1
                        /\ pc' = "loop"
                        /\ UNCHANGED error_log
    /\ UNCHANGED <<df, sell_date, stock_data, market_data, fetchVars, exc,
                   maVars>>

\* lines 153-167: the loop is over, the averages are taken and printed
Finalize ==
    /\ pc = "loop" /\ row > Len(df)
    /\ pc' = "done"
    /\ IF num_stocks_processed > 0
       THEN /\ portfolio_alpha' = FDivInt(portfolio_alpha, num_stocks_processed)
            /\ portfolio_beta' = FDivInt(portfolio_beta, num_stocks_processed)
            /\ portfolio_sharpe_ratio' =
                   FDivInt(portfolio_sharpe_ratio, num_stocks_processed)
       ELSE UNCHANGED <<portfolio_alpha, portfolio_beta, portfolio_sharpe_ratio>>
    /\ UNCHANGED <<df, row, sell_date, num_stocks_processed, results,
                   error_log, status, stock_data, market_data, fetchVars,
                   exc, returns_data, metrics, maVars>>

Init ==
    /\ df \in UNION {[1 .. n -> SheetRows] : n \in 0 .. MaxPositions}
    /\ pc = "loop"
    /\ row = 1
    /\ sell_date = NaT
    /\ stock_data = NoFrame
    /\ market_data = NoFrame
    /\ portfolio_alpha = Fin(0)
    /\ portfolio_beta = Fin(0)
    /\ portfolio_sharpe_ratio = Fin(0)
    /\ num_stocks_processed = 0
    /\ results = <<>>
    /\ error_log = <<>>
    /\ status = <<>>
    /\ IdleFetch
    /\ returns_data = <<>>
    /\ metrics = [called |-> FALSE, value |-> NoMetrics]
    /\ IdleMA

Next ==
    \/ NextPosition
    \/ FetchCreate
    \/ FetchStart
    \/ FetchOpen
    \/ FetchPartial
    \/ FetchResponse
    \/ FetchError
    \/ AfterStock
    \/ AfterMarket
    \/ Finalize

Spec == Init /\ [][Next]_vars

-----------------------------------------------------------------------------
(* EventTradesAnalysis.py: the input sheet, lines 107-128 *)

DealPrices == {100, 105}
\* the 'Sell Date' cell as days from today: yesterday, today, in 30 days
CloseOffsets == {-1, 0, 30}

EventRows == [Ticker : {"TGT US Equity"}, DealPrice : DealPrices,
              SellDate : CloseOffsets]

ma_market_ticker == "SPX Index"

-----------------------------------------------------------------------------
(* get_bloomberg_data, EventTradesAnalysis.py lines 8-54 *)

InGet == ma_pc \in {"fetch_stock", "fetch_market"}

\* the call at line 75 or line 76: fresh locals
CallGet(ticker) ==
    /\ fpc' = "create"
    /\ session' = "unbound"
    /\ data' = NoFrame
    /\ pending' = <<>>
    /\ received' = <<>>
    /\ calls' = Append(calls, <<ma_row, ticker>>)
    /\ UNCHANGED <<live, exc>>

\* an exception leaves get_bloomberg_data, merger_arbitrage_analysis_bloomberg
\* and merger_arbitrage_from_excel: nothing on the way catches it
Raise(e) ==
    /\ ma_pc' = "aborted"
    /\ exc' = e
    /\ fpc' = "idle"

\* lines 9-13
GetCreate ==
    /\ InGet /\ fpc = "create"
    /\ \E constructed \in BOOLEAN :
         IF constructed
         THEN /\ session' = "created"
              /\ fpc' = "start"
              /\ UNCHANGED <<ma_pc, exc>>
         ELSE /\ Raise("Exception: session not created")
              /\ UNCHANGED session
    /\ UNCHANGED <<batchVars, stock_data, market_data, returns_data, metrics,
                   live, pending, data, received,
                   calls, ma_df, ma_row, ma_stock,
                   ma_market, ma_metrics, ma_results>>

\* lines 14-15
GetStart ==
    /\ InGet /\ fpc = "start"
    /\ \E started \in BOOLEAN :
         IF started
         THEN /\ session' = "started"
              /\ live' = live + 1
              /\ fpc' = "open"
              /\ UNCHANGED <<ma_pc, exc>>
         ELSE /\ Raise("Exception: Failed to start Bloomberg session.")
              /\ UNCHANGED <<session, live>>
    /\ UNCHANGED <<batchVars, stock_data, market_data, returns_data, metrics,
                   pending, data, received,
                   calls, ma_df, ma_row, ma_stock, ma_market,
                   ma_metrics, ma_results>>

\* lines 17-34
GetOpen ==
    /\ InGet /\ fpc = "open"
    /\ \E opened \in BOOLEAN :
         IF opened
         THEN /\ pending' \in ProviderSeries
              /\ data' = NoFrame
              /\ fpc' = "poll"
              /\ UNCHANGED <<ma_pc, exc>>
         ELSE /\ Raise("Exception: Failed to open Bloomberg service.")
              /\ UNCHANGED <<pending, data>>
    /\ UNCHANGED received
    /\ UNCHANGED <<batchVars, stock_data, market_data, returns_data, metrics,
                   session, live, calls, ma_df, ma_row, ma_stock, ma_market,
                   ma_metrics, ma_results>>

\* line 48: result[ticker] = prices, the dict built from this message alone
StorePrices(result, points) == Frame(points)

\* lines 35-51, an event that is not the RESPONSE: a timeout of nextEvent(500)
\* or a status event (k = 0), or a message with the next k data points
GetPartial ==
    /\ InGet /\ fpc = "poll"
    /\ \E k \in 0 .. Len(pending) :
         /\ data' = IF k = 0 THEN data ELSE StorePrices(data, SubSeq(pending, 1, k))
         /\ received' = received \o SubSeq(pending, 1, k)
         /\ pending' = SubSeq(pending, k + 1, Len(pending))
    /\ UNCHANGED <<batchVars, stock_data, market_data, returns_data, metrics,
                   fpc, session, live, calls, exc, maVars>>

\* lines 35-54, the RESPONSE event: a message with the rest of the data, or
\* none when nothing is left; session.stop() and return result
GetResponse ==
    /\ InGet /\ fpc = "poll"
    /\ \E withData \in BOOLEAN :
         /\ ~withData => pending = <<>>
         /\ data' = IF withData THEN StorePrices(data, pending) ELSE data
    /\ received' = received \o pending
    /\ pending' = <<>>
    /\ StopSession
    /\ fpc' = "idle"
    /\ IF ma_pc = "fetch_stock"
       THEN ma_stock' = data' /\ ma_pc' = "got_stock" /\ UNCHANGED ma_market
       ELSE ma_market' = data' /\ ma_pc' = "got_market" /\ UNCHANGED ma_stock
    /\ UNCHANGED <<batchVars, stock_data, market_data, returns_data, metrics,
                   calls, exc, ma_df, ma_row, ma_metrics, ma_results>>

\* lines 36-48 raise (connection lost, malformed message)
GetError ==
    /\ InGet /\ fpc = "poll"
    /\ Raise("Exception: provider error")
    /\ UNCHANGED <<batchVars, stock_data, market_data, returns_data, metrics,
                   session, live, pending, data, received,
                   calls, ma_df, ma_row,
                   ma_stock, ma_market, ma_metrics, ma_results>>

-----------------------------------------------------------------------------
(* calculate_alpha_beta_sharpe, EventTradesAnalysis.py lines 57-67 *)

\* np.log, in fixed point, on the prices the provider quotes
Log(p) ==
    CASE p = 100 -> 46052
      [] p = 110 -> 47005

\* np.diff(np.log(prices)), lines 59-60
LogReturns(prices) ==
    [k \in 1 .. Len(prices) - 1 |-> Log(prices[k + 1]) - Log(prices[k])]

\* lines 59-67; raised: stats.linregress raised ValueError (empty input,
\* inputs of different lengths, or all market returns identical)
calculate_alpha_beta_sharpe(stock_prices, market_prices) ==
    LET stock_returns  == LogReturns(stock_prices)
        market_returns == LogReturns(market_prices)
        n      == Len(stock_returns)
        excess == [k \in 1 .. n |->
                      stock_returns[k] - (RiskFreePct * Scale) \div (100 * TradingDays)]
        se     == SumSeq(excess)
        ss     == SumSeq(stock_returns)
        std    == ISqrt(n * SumSeq([k \in 1 .. n |-> stock_returns[k] * stock_returns[k]])
                        - ss * ss) \div n
    IN  IF n = 0 \/ Len(market_returns) /= n
        THEN [raised |-> TRUE, value |-> NoMetrics]
        ELSE LET reg == linregress(market_returns, stock_returns)
             IN  IF reg.raised
                 THEN [raised |-> TRUE, value |-> NoMetrics]
                 ELSE [raised |-> FALSE,
                       value |-> [alpha |-> reg.intercept, beta |-> reg.slope,
                                  sharpe_ratio |-> FDiv(se \div n, std)]]

-----------------------------------------------------------------------------
(* merger_arbitrage_analysis_bloomberg and merger_arbitrage_from_excel,    *)
(* EventTradesAnalysis.py lines 70-104 and 119-139                         *)

PriceColumn(rows) == [k \in 1 .. Len(rows) |-> rows[k].price]

\* line 88, Python floats: (deal_price - current) / deal_price * 100
ArbitrageSpread(deal_price, current) ==
    ((deal_price - current) * 100 * Scale) \div deal_price

\* line 93 with 0 in place of None
AnnualizedReturnZero(spread, days_to_close) ==
    IF spread > 0 THEN Fin((spread \div days_to_close) * 365) ELSE Fin(0)

\* line 93, for days_to_close /= 0
AnnualizedReturn(spread, days_to_close) ==
    IF spread > 0 THEN Fin((spread \div days_to_close) * 365) ELSE None

\* lines 125-130 and 72-75: the next row is taken and the target's prices
\* are requested
MANextRow ==
    /\ ma_pc = "loop" /\ ma_row <= Len(ma_df)
    /\ ma_pc' = "fetch_stock"
    /\ CallGet(ma_df[ma_row].Ticker)
    /\ UNCHANGED <<batchVars, stock_data, market_data, returns_data, metrics,
                   ma_df, ma_row, ma_stock, ma_market, ma_metrics, ma_results>>

\* line 76
MAAfterStock ==
    /\ ma_pc = "got_stock"
    /\ ma_pc' = "fetch_market"
    /\ CallGet(ma_market_ticker)
    /\ UNCHANGED <<batchVars, stock_data, market_data, returns_data, metrics,
                   ma_df, ma_row, ma_stock, ma_market, ma_metrics, ma_results>>

\* line 131
AppendAnalysis(rs, r) == Append(rs, r)

\* lines 78-104 and 131
MAAnalyse ==
    /\ ma_pc = "got_market"
    /\ LET deal_price    == ma_df[ma_row].DealPrice
           days_to_close == ma_df[ma_row].SellDate
           stock_prices  == PriceColumn(ma_stock.rows)
           market_prices == PriceColumn(ma_market.rows)
           abs           == calculate_alpha_beta_sharpe(stock_prices, market_prices)
           current       == stock_prices[Len(stock_prices)]
           spread        == ArbitrageSpread(deal_price, current)
       IN  IF ma_stock.isNone \/ ma_market.isNone
           THEN /\ Raise("KeyError")
                /\ UNCHANGED <<ma_row, ma_metrics, ma_results>>
           ELSE IF abs.raised
           THEN /\ Raise("ValueError")
                /\ ma_metrics' = [called |-> TRUE, raised |-> TRUE, value |-> NoMetrics]
                /\ UNCHANGED <<ma_row, ma_results>>
           ELSE IF spread > 0 /\ days_to_close = 0
           THEN /\ Raise("ZeroDivisionError")
                /\ ma_metrics' = [called |-> TRUE, raised |-> FALSE, value |-> abs.value]
                /\ UNCHANGED <<ma_row, ma_results>>
           ELSE /\ ma_metrics' = [called |-> TRUE, raised |-> FALSE, value |-> abs.value]
                /\ ma_results' = AppendAnalysis(ma_results,
                      [Target |-> ma_df[ma_row].Ticker,
                       CurrentTargetPrice |-> current,
                       DealPrice |-> deal_price,
                       ArbitrageSpread |-> Fin(spread),
                       AnnualizedReturn |-> AnnualizedReturn(spread, days_to_close),
                       Alpha |-> abs.value.alpha,
                       Beta |-> abs.value.beta,
                       SharpeRatio |-> abs.value.sharpe_ratio])
                /\ ma_row' = ma_row + 1
                /\ ma_pc' = "loop"
                /\ UNCHANGED <<exc, fpc>>
    /\ UNCHANGED <<batchVars, stock_data, market_data, returns_data, metrics,
                   session, live, pending, data, received,
                   calls, ma_df, ma_stock,
                   ma_market>>

\* lines 133-139: the results are written and returned
MAFinish ==
    /\ ma_pc = "loop" /\ ma_row > Len(ma_df)
    /\ ma_pc' = "done"
    /\ UNCHANGED <<batchVars, stock_data, market_data, returns_data, metrics,
                   fetchVars, exc, ma_df, ma_row, ma_stock, ma_market,
                   ma_metrics, ma_results>>

InitMA ==
    /\ Idle
    /\ stock_data = NoFrame /\ market_data = NoFrame
    /\ returns_data = <<>>
    /\ metrics = [called |-> FALSE, value |-> NoMetrics]
    /\ fpc = "idle" /\ session = "unbound" /\ live = 0 /\ pending = <<>>
    /\ data = NoFrame /\ calls = <<>> /\ exc = NoException
    /\ received = <<>>
    /\ ma_df \in UNION {[1 .. n -> EventRows] : n \in 0 .. MaxRows}
    /\ ma_pc = "loop"
    /\ ma_row = 1
    /\ ma_stock = NoFrame
    /\ ma_market = NoFrame
    /\ ma_metrics = [called |-> FALSE, raised |-> FALSE, value |-> NoMetrics]
    /\ ma_results = <<>>

NextMA ==
    \/ MANextRow
    \/ GetCreate
    \/ GetStart
    \/ GetOpen
    \/ GetPartial
    \/ GetResponse
    \/ GetError
    \/ MAAfterStock
    \/ MAAnalyse
    \/ MAFinish

SpecMA == InitMA /\ [][NextMA]_vars

-----------------------------------------------------------------------------
(* SpecAlign: both regression call sites on every pair of series *)

\* EventTradesAnalysis.py lines 78-82 on the pair of fetched series
CalculateAlphaBetaSharpe ==
    /\ ~ma_metrics.called
    /\ LET abs == calculate_alpha_beta_sharpe(PriceColumn(stock_data.rows),
                                              PriceColumn(market_data.rows))
       IN  ma_metrics' = [called |-> TRUE, raised |-> abs.raised, value |-> abs.value]
    /\ UNCHANGED <<batchVars, fetchVars, exc, stock_data, market_data,
                   returns_data, metrics, ma_df, ma_pc, ma_row, ma_stock,
                   ma_market, ma_results>>

NextAlign ==
    \/ CalculateMetrics
    \/ CalculateAlphaBetaSharpe

SpecAlign == InitAlign /\ [][NextAlign]_vars

-----------------------------------------------------------------------------
(* Properties of the portfolio batch (Spec) *)

RECURSIVE CountOf(_, _)
CountOf(s, x) ==
    IF s = <<>> THEN 0
    ELSE (IF Head(s) = x THEN 1 ELSE 0) + CountOf(Tail(s), x)

\* the tickers of the rows taken so far that ended in state st, in row order
RECURSIVE TickersEnded(_, _)
TickersEnded(st, k) ==
    IF k = 0 THEN <<>>
    ELSE IF status[k] = st THEN Append(TickersEnded(st, k - 1), tickers[k])
    ELSE TickersEnded(st, k - 1)

TickerColumn(rs) == [k \in 1 .. Len(rs) |-> rs[k].ticker]

AllDefined(r) == IsFinite(r.alpha) /\ IsFinite(r.beta) /\ IsFinite(r.sharpe_ratio)

\* C1: one failing request never aborts the batch: whatever each provider
\* call does, the script is never left by an exception, every row that
\* failed has an error-log line naming its ticker, and when the script has
\* finished every row of the sheet has been taken.
C1_FailureNeverAbortsBatch ==
    /\ pc /= "aborted"
    /\ \A k \in 1 .. Len(status) :
         status[k] = "Failed" =>
           \E e \in 1 .. Len(error_log) : error_log[e].ticker = tickers[k]
    /\ pc = "done" => Len(status) = Len(df)

\* C2: after the batch every input position is in exactly one of results and
\* the error log, exactly once, and every result row carries three defined
\* numbers.
C2_EveryPositionInExactlyOneOutput ==
    pc = "done" =>
      /\ Len(results) + Len(error_log) = Len(df)
      /\ \A t \in TickerPool :
           CountOf(TickerColumn(results), t) + CountOf(TickerColumn(error_log), t)
             = CountOf(tickers, t)
      /\ \A k \in 1 .. Len(results) : AllDefined(results[k])

\* C3: at every point of the batch the tickers in results are those of the
\* successful rows in input order, and the tickers in the error log those of
\* the failed rows in input order.
C3_OutputsPreserveRowOrder ==
    /\ Len(status) <= Len(df)
    /\ TickerColumn(results) = TickersEnded("Success", Len(status))
    /\ TickerColumn(error_log) = TickersEnded("Failed", Len(status))

C3_Witness ==
    /\ Len(results) >= 2
    /\ results[1].ticker /= results[2].ticker
    /\ results[1].ticker = tickers[1]

\* C5: when no position succeeded, the portfolio metrics are absent after
\* finalization, not the number zero.
C5_NoSuccessMeansAbsentAverages ==
    (pc = "done" /\ num_stocks_processed = 0) =>
      /\ portfolio_alpha = None
      /\ portfolio_beta = None
      /\ portfolio_sharpe_ratio = None

ZeroVariance(xs) == xs /= <<>> /\ \A k \in 1 .. Len(xs) : xs[k] = xs[1]

\* C8: a position whose aligned subject returns, or aligned benchmark
\* returns, are two or more equal values (zero variance) ends Failed with the metrics-computation
\* line in the error log; it is not appended to results and the running
\* sums are left as they were.
C8_DegenerateVarianceFails ==
    [][ ( /\ pc = "got_market"
          /\ pc' = "loop"
          /\ ~market_data.isNone
          /\ Len(returns_data') >= 2
          /\ \/ ZeroVariance([k \in 1 .. Len(returns_data') |-> returns_data'[k].stock])
             \/ ZeroVariance([k \in 1 .. Len(returns_data') |-> returns_data'[k].market]) )
        => ( /\ status' = Append(status, "Failed")
             /\ error_log' = Append(error_log,
                    ErrorLine(tickers[row], "Error calculating metrics."))
             /\ results' = results
             /\ portfolio_alpha' = portfolio_alpha
             /\ portfolio_beta' = portfolio_beta
             /\ portfolio_sharpe_ratio' = portfolio_sharpe_ratio ) ]_vars

\* the error-log line of row k, a row that ended Failed
ErrorLineOfRow(k) == error_log[Len(TickersEnded("Failed", k))]

\* C9: a position whose purchase date cell is blank or unparseable ends
\* Failed with the invalid-date line in the error log, and no fetch (hence
\* no session) is ever begun for it.
C9_InvalidDateFailsWithoutProviderCall ==
    \A k \in 1 .. Len(df) :
      df[k].PurchaseDate \in {"", "n/a"} =>
        /\ \A c \in 1 .. Len(calls) : calls[c][1] /= k
        /\ k <= Len(status) =>
             /\ status[k] = "Failed"
             /\ ErrorLineOfRow(k) =
                  ErrorLine(df[k].Ticker, "Invalid purchase date format.")
        /\ (pc = "loop" /\ row = k + 1 /\ k = Len(status)) => fpc = "idle"

C9_Witness ==
    /\ pc = "done"
    /\ Len(df) = 2
    /\ df[1].PurchaseDate = "n/a"
    /\ df[2].PurchaseDate = "2024-01-02"
    /\ status = <<"Failed", "Success">>
    /\ error_log = <<ErrorLine(df[1].Ticker, "Invalid purchase date format.")>>
    /\ Len(calls) = 2

\* the floats of s added one after the other, from 0.0
RECURSIVE SumOf(_)
SumOf(s) ==
    IF s = <<>> THEN Fin(0)
    ELSE LET t == SumOf(SubSeq(s, 1, Len(s) - 1))
             x == s[Len(s)]
         IN  IF t.kind = "nan" \/ x.kind = "nan" THEN NaN
             ELSE IF t.kind = "fin" /\ x.kind = "fin" THEN Fin(t.v + x.v)
             ELSE IF t.kind = "fin" THEN x
             ELSE IF x.kind = "fin" \/ x = t THEN t
             ELSE NaN

AlphaColumn == [k \in 1 .. Len(results) |-> results[k].alpha]
BetaColumn == [k \in 1 .. Len(results) |-> results[k].beta]
SharpeColumn == [k \in 1 .. Len(results) |-> results[k].sharpe_ratio]

\* total / count, for count > 0
Average(total, count) ==
    IF total.kind = "fin" THEN Fin(total.v \div count) ELSE total

\* the count and the totals agree with results while the loop runs, and
\* the averages with results once the batch is finalized
TotalsMatchResults ==
    /\ num_stocks_processed = Len(results)
    /\ num_stocks_processed = CountOf(status, "Success")
    /\ (pc /= "done" \/ num_stocks_processed = 0) =>
          /\ portfolio_alpha = SumOf(AlphaColumn)
          /\ portfolio_beta = SumOf(BetaColumn)
          /\ portfolio_sharpe_ratio = SumOf(SharpeColumn)
    /\ (pc = "done" /\ num_stocks_processed > 0) =>
          /\ portfolio_alpha = Average(SumOf(AlphaColumn), Len(results))
          /\ portfolio_beta = Average(SumOf(BetaColumn), Len(results))
          /\ portfolio_sharpe_ratio = Average(SumOf(SharpeColumn), Len(results))

\* C14: while the batch loop runs num_stocks_processed is the number of rows
\* in results and each running total is the sum of its metric over those
\* rows; a step that ends a position Failed leaves results, the count and
\* the totals as they were; finalization with count > 0 leaves total / count
\* in each average, divided once.
C14_TotalsAndAveragesFollowResults ==
    /\ TotalsMatchResults
    /\ [][/\ TotalsMatchResults'
          /\ status' = Append(status, "Failed") =>
                UNCHANGED <<results, num_stocks_processed, portfolio_alpha,
                            portfolio_beta, portfolio_sharpe_ratio>>
          /\ (pc' = "done" /\ num_stocks_processed > 0) =>
                /\ portfolio_alpha' = Average(portfolio_alpha, num_stocks_processed)
                /\ portfolio_beta' = Average(portfolio_beta, num_stocks_processed)
                /\ portfolio_sharpe_ratio' =
                       Average(portfolio_sharpe_ratio, num_stocks_processed)]_vars

\* two positions succeeded, one failed before or between them is possible,
\* and the batch is finalized with a non-zero average beta
C14_Witness ==
    /\ pc = "done"
    /\ num_stocks_processed = 2
    /\ Len(results) = 2
    /\ IsFinite(portfolio_beta) /\ portfolio_beta.v /= 0
    /\ portfolio_beta = Average(SumOf(BetaColumn), 2)

HasRows(f) == ~f.isNone /\ Len(f.rows) > 0

\* the reason logged for a position that fails after the date check: the
\* first of the three stages that did not deliver
FirstFailedStage ==
    IF ~HasRows(stock_data) THEN "Error fetching stock data."
    ELSE IF ~HasRows(market_data) THEN "Error fetching market data."
    ELSE "Error calculating metrics."

\* C15: within a position the stages run in order and stop at the first
\* failure: the benchmark fetch is called only from the point where the
\* subject fetch has returned, and only with subject rows; metrics are
\* computed (a Success, or the metrics error line) only with subject and
\* benchmark rows; a position that fails after its date check gets exactly
\* one error-log line, for its own ticker, naming the first failed stage.
C15_StagesInOrderStopAtFirstFailure ==
    [][/\ (pc' = "fetch_market" /\ pc /= "fetch_market") =>
            /\ pc = "got_stock" /\ HasRows(stock_data)
            /\ calls' = Append(calls, <<row, market_ticker>>)
            /\ status' = status /\ error_log' = error_log
       /\ (metrics' /= metrics \/ status' = Append(status, "Success")) =>
            /\ pc = "got_market"
            /\ HasRows(stock_data) /\ HasRows(market_data)
       /\ (status' = Append(status, "Failed") /\ pc /= "loop") =>
            /\ pc \in {"got_stock", "got_market"}
            /\ pc = "got_stock" => ~HasRows(stock_data)
            /\ error_log' = Append(error_log,
                   ErrorLine(tickers[row], FirstFailedStage))
            /\ calls' = calls
       /\ error_log' /= error_log =>
            /\ Len(error_log') = Len(error_log) + 1
            /\ status' = Append(status, "Failed")]_vars

\* the first position got subject rows, then no benchmark rows: two provider
\* calls were made and the one error line names the market fetch
C15_Witness ==
    /\ pc = "loop" /\ row = 2
    /\ HasRows(stock_data) /\ ~HasRows(market_data)
    /\ calls = << <<1, tickers[1]>>, <<1, market_ticker>> >>
    /\ status = <<"Failed">>
    /\ error_log = <<ErrorLine(tickers[1], "Error fetching market data.")>>

\* both fetches of the current position returned rows, on disjoint dates
NoCommonDates ==
    /\ ~stock_data.isNone /\ stock_data.rows /= <<>>
    /\ ~market_data.isNone /\ market_data.rows /= <<>>
    /\ DateSet(stock_data.rows) \cap DateSet(market_data.rows) = {}

\* C13: when the subject and the benchmark series of a position have no date
\* in common, the step that computes the metrics gets no metrics from
\* calculate_metrics, the position ends Failed with the error-log line
\* "Error calculating metrics.", and nothing is added to results, the count
\* or the totals.
C13_NoCommonDatesFailsPosition ==
    [][(pc = "got_market" /\ NoCommonDates) =>
         /\ metrics'.called /\ metrics'.value = NoMetrics
         /\ returns_data' = <<>>
         /\ status' = Append(status, "Failed")
         /\ error_log' = Append(error_log,
                ErrorLine(tickers[row], "Error calculating metrics."))
         /\ results' = results
         /\ num_stocks_processed' = num_stocks_processed
         /\ portfolio_alpha' = portfolio_alpha
         /\ portfolio_beta' = portfolio_beta
         /\ portfolio_sharpe_ratio' = portfolio_sharpe_ratio]_vars

\* the first position was fetched on disjoint dates and has just failed
C13_Witness ==
    /\ pc = "loop" /\ row = 2
    /\ NoCommonDates
    /\ metrics.called
    /\ status = <<"Failed">>
    /\ error_log = <<ErrorLine(tickers[1], "Error calculating metrics.")>>
    /\ results = <<>>

-----------------------------------------------------------------------------
(* Properties of calculate_metrics (SpecAlign) *)

CommonDates == DateSet(stock_data.rows) \cap DateSet(market_data.rows)

AtLeastThreePoints == Len(stock_data.rows) >= 3 /\ Len(market_data.rows) >= 3

\* C10 as stated: for series of at least 3 points each, the aligned return
\* pair has (number of common dates) - 1 rows.
C10_AlignedLengthIsIntersectionMinusOne ==
    (metrics.called /\ AtLeastThreePoints) =>
      Len(returns_data) = Cardinality(CommonDates) - 1

\* C10 amended: for series of at least 3 points each, the aligned return
\* pair has one row for every common date that is not the first date of
\* either series.
C10_AlignedLengthIsCommonDatesLessFirsts ==
    (metrics.called /\ AtLeastThreePoints) =>
      Len(returns_data) =
        Cardinality(CommonDates \ {stock_data.rows[1].date, market_data.rows[1].date})

C10_Witness ==
    /\ metrics.called
    /\ AtLeastThreePoints
    /\ stock_data.rows[1].date /= market_data.rows[1].date
    /\ Cardinality(CommonDates) >= 2
    /\ Len(returns_data) = Cardinality(CommonDates)

\* the date each element of a return series belongs to, when the returns
\* are taken over the bare price column (np.diff drops the first row)
ReturnDates(rows) == [k \in 1 .. Len(rows) - 1 |-> rows[k + 1].date]

\* the return pair of calculate_metrics is on common dates, in date order,
\* and row i carries both series' returns of that date
MetricsPairAligned ==
    /\ \A k \in 1 .. Len(returns_data) :
          /\ returns_data[k].date \in CommonDates
          /\ returns_data[k].stock
               = RetAt(pct_change(stock_data.rows), returns_data[k].date)
          /\ returns_data[k].market
               = RetAt(pct_change(market_data.rows), returns_data[k].date)
    /\ \A j, k \in 1 .. Len(returns_data) :
          j < k => returns_data[j].date < returns_data[k].date

\* C11: at both regression call sites the two return series are on the
\* common dates of the two price series, equally long, and element i of the
\* subject returns and element i of the benchmark returns belong to the
\* same date: in calculate_metrics the aligned pair, and in
\* calculate_alpha_beta_sharpe (whenever the regression returned a value)
\* the two return series taken from the fetched price columns.
C11_ReturnsAlignedAtBothCallSites ==
    /\ metrics.called => MetricsPairAligned
    /\ (ma_metrics.called /\ ~ma_metrics.raised) =>
          /\ ReturnDates(stock_data.rows) = ReturnDates(market_data.rows)
          /\ \A k \in 1 .. Len(stock_data.rows) - 1 :
                ReturnDates(stock_data.rows)[k] \in CommonDates

-----------------------------------------------------------------------------
(* Properties of the merger-arbitrage batch (SpecMA) *)

\* C4: the session is released on every exit path of a fetch: whenever no
\* fetch is in progress (the last one returned or raised), no session that
\* was started is still open.
C4_SessionReleasedOnEveryExit == fpc = "idle" => live = 0

\* C6: no annualized-return number is returned for a deal whose expected
\* close date is today or in the past.
C6_NoAnnualizedReturnForPastDeal ==
    \A k \in 1 .. Len(ma_results) :
      ma_df[k].SellDate <= 0 => ~IsFinite(ma_results[k].AnnualizedReturn)

\* C7: when the spread analysis of a row fails (expected close date today,
\* positive spread) after alpha, beta and Sharpe were computed, the row still
\* yields a result with those three metrics and with the spread fields
\* absent, and the batch goes on to the next row.
C7_SpreadFailureKeepsMetrics ==
    [][ LET stock_prices  == PriceColumn(ma_stock.rows)
            market_prices == PriceColumn(ma_market.rows)
            abs           == calculate_alpha_beta_sharpe(stock_prices, market_prices)
            spread        == ArbitrageSpread(ma_df[ma_row].DealPrice,
                                             stock_prices[Len(stock_prices)])
        IN  ( /\ ma_pc = "got_market"
              /\ ~ma_stock.isNone /\ ~ma_market.isNone
              /\ ~abs.raised
              /\ ma_df[ma_row].SellDate = 0
              /\ spread > 0 )
            => ( /\ Len(ma_results') = Len(ma_results) + 1
                 /\ ma_results'[Len(ma_results')].Alpha = abs.value.alpha
                 /\ ma_results'[Len(ma_results')].Beta = abs.value.beta
                 /\ ma_results'[Len(ma_results')].SharpeRatio = abs.value.sharpe_ratio
                 /\ ma_results'[Len(ma_results')].ArbitrageSpread = None
                 /\ ma_results'[Len(ma_results')].AnnualizedReturn = None
                 /\ ma_pc' = "loop"
                 /\ ma_row' = ma_row + 1 ) ]_vars

\* C12: every returned analysis row carries the spread
\* (deal price - current price) / deal price * 100 of its own deal price and
\* current price (here to 4 decimals, rounded down); a spread <= 0 has the
\* annualized return None, not a number, whatever days_to_close is, and a
\* number appears only with a spread > 0.
C12_NoAnnualizedReturnWithoutPositiveSpread ==
    \A k \in 1 .. Len(ma_results) :
      LET r == ma_results[k]
          s == r.ArbitrageSpread.v
          X == (r.DealPrice - r.CurrentTargetPrice) * 100 * Scale
      IN  /\ r.DealPrice = ma_df[k].DealPrice
          /\ r.ArbitrageSpread.kind = "fin"
          /\ s * r.DealPrice <= X /\ X < (s + 1) * r.DealPrice
          /\ s <= 0 => r.AnnualizedReturn = None
          /\ r.AnnualizedReturn /= None =>
                (s > 0 /\ r.AnnualizedReturn.kind = "fin")

\* a zero spread with the close date today and a negative spread with the
\* close date in the past were both analysed, and neither has a number
C12_Witness ==
    /\ Len(ma_results) = 2
    /\ ma_df[1].SellDate = 0 /\ ma_results[1].ArbitrageSpread = Fin(0)
    /\ ma_df[2].SellDate < 0 /\ ma_results[2].ArbitrageSpread.v < 0
    /\ ma_results[1].AnnualizedReturn = None
    /\ ma_results[2].AnnualizedReturn = None

\* C16: a fetch that has just returned a price series returns every data
\* point the provider delivered to that call, over all its events up to and
\* including the RESPONSE, in arrival order; for fetch_bloomberg_data and for
\* get_bloomberg_data alike.
C16_ReturnedSeriesHoldsAllReceivedData ==
    /\ (pc = "got_stock" /\ ~stock_data.isNone) => stock_data.rows = received
    /\ (pc = "got_market" /\ ~market_data.isNone) => market_data.rows = received
    /\ ma_pc = "got_stock" => ma_stock.rows = received
    /\ ma_pc = "got_market" => ma_market.rows = received

=============================================================================
